---- MODULE Spec2Model ----
(***************************************************************************)
(* Model of scripts/last_airbender_sync.py: the column addressing helpers, *)
(* the paginated Scryfall fetch with its retry loop, the reconciliation of *)
(* sheet rows against the catalog, and main(), which composes them.        *)
(*                                                                         *)
(* Strings that the program inspects character by character (column       *)
(* references, card names, rarities) are sequences of code points, so that *)
(* strip(), upper() and lower() are modelled by what they do.              *)
(***************************************************************************)
EXTENDS Integers, Sequences, FiniteSets, TLC

(* ------------------------------------------------------------------ *)
(* Bounds of the model                                                 *)
(* ------------------------------------------------------------------ *)
MaxColLen == 2
MaxPages == 2
MaxRows == 3

(* ------------------------------------------------------------------ *)
(* Strings                                                             *)
(* ------------------------------------------------------------------ *)
\* str.strip() removes leading and trailing whitespace.
IsSpace(c) == c \in {9, 10, 11, 12, 13, 32}

RECURSIVE LStrip(_)
LStrip(s) == IF s # <<>> /\ IsSpace(Head(s)) THEN LStrip(Tail(s)) ELSE s

RECURSIVE RStrip(_)
RStrip(s) ==
    IF s # <<>> /\ IsSpace(s[Len(s)]) THEN RStrip(SubSeq(s, 1, Len(s) - 1)) ELSE s

Strip(s) == RStrip(LStrip(s))

UpperChar(c) == IF c >= 97 /\ c <= 122 THEN c - 32 ELSE c
LowerChar(c) == IF c >= 65 /\ c <= 90 THEN c + 32 ELSE c
Upper(s) == [i \in 1..Len(s) |-> UpperChar(s[i])]
Lower(s) == [i \in 1..Len(s) |-> LowerChar(s[i])]

RECURSIVE Reversed(_)
Reversed(s) == IF s = <<>> THEN <<>> ELSE Reversed(Tail(s)) \o <<Head(s)>>

RECURSIVE SeqsUpTo(_, _)
SeqsUpTo(S, n) ==
    IF n = 0 THEN {<<>>}
    ELSE LET shorter == SeqsUpTo(S, n - 1)
         IN  shorter \cup {Append(s, x) : s \in shorter, x \in S}

(* ------------------------------------------------------------------ *)
(* Column addressing                                                   *)
(* ------------------------------------------------------------------ *)
\* column_to_index raises SheetSyncError on an empty reference or on a
\* character outside A-Z (after strip and upper).
column_to_index_raises(column) ==
    LET c == Upper(Strip(column))
    IN  \/ c = <<>>
        \/ \E i \in 1..Len(c) : ~(c[i] >= 65 /\ c[i] <= 90)

RECURSIVE ColumnDigits(_, _)
ColumnDigits(index, chars) ==
    IF chars = <<>> THEN index
    ELSE ColumnDigits(index * 26 + (Head(chars) - 65 + 1), Tail(chars))

column_to_index(column) == ColumnDigits(0, Upper(Strip(column)))

\* The mutant drops the "- 1" of divmod(index - 1, 26).
RECURSIVE IndexCharsNoCarry(_)
IndexCharsNoCarry(index) ==
    IF index = 0 THEN <<>>
    ELSE <<65 + (index % 26)>> \o IndexCharsNoCarry(index \div 26)

index_to_column_no_carry(index) == Reversed(IndexCharsNoCarry(index))

\* chars, in the order the loop appends them (least significant first).
RECURSIVE IndexChars(_)
IndexChars(index) ==
    IF index = 0 THEN <<>>
    ELSE <<65 + ((index - 1) % 26)>> \o IndexChars((index - 1) \div 26)

index_to_column(index) == Reversed(IndexChars(index))

index_to_column_raises(index) == index < 1

(* ------------------------------------------------------------------ *)
(* Rarity mapping                                                      *)
(* ------------------------------------------------------------------ *)
S_mythic == <<109, 121, 116, 104, 105, 99>>
S_rare == <<114, 97, 114, 101>>
S_uncommon == <<117, 110, 99, 111, 109, 109, 111, 110>>
S_common == <<99, 111, 109, 109, 111, 110>>
S_Rare == <<82, 97, 114, 101>>
S_COMMON == <<67, 79, 77, 77, 79, 78>>
S_special == <<115, 112, 101, 99, 105, 97, 108>>
\* A rarity that is None or "" (both falsy in the fetch loop).
NoRarity == <<>>
\* The value of dict.get() for an absent key.
NoCode == "None"

RARITY_MAP_keys == {S_mythic, S_rare, S_uncommon, S_common}
RARITY_MAP(key) ==
    CASE key = S_mythic -> "M"
      [] key = S_rare -> "R"
      [] key = S_uncommon -> "U"
      [] key = S_common -> "C"

rarity_code(rarity) ==
    IF Lower(rarity) \in RARITY_MAP_keys THEN RARITY_MAP(Lower(rarity)) ELSE NoCode

(* ------------------------------------------------------------------ *)
(* Inputs: catalog pages, sheet contents, command line                 *)
(* ------------------------------------------------------------------ *)
N_A == <<65>>
N_Z == <<90>>
N_a == <<97>>
N_spA == <<32, 65>>
N_Zsp == <<90, 32>>
N_sp == <<32>>
N_empty == <<>>

\* URLs are numbered: the search endpoint is page 1, next_page of page i is
\* page i + 1, and 0 stands for an absent next_page (None).
SCRYFALL_SEARCH_ENDPOINT == 1

Card(name, rarity) == [name |-> name, rarity |-> rarity]

\* The "data" lists a page may carry.
PageData ==
    { <<Card(N_A, S_mythic)>>,
      <<Card(N_spA, S_COMMON), Card(N_Z, S_Rare)>>,
      <<Card(N_empty, S_rare), Card(N_Z, NoRarity), Card(N_a, S_special)>>,
      <<>> }

\* A paginated result set as Scryfall serves it: every page but the last has
\* has_more set and names the next page.
MkPages(datas) ==
    [i \in 1..Len(datas) |->
        [data |-> datas[i],
         has_more |-> i < Len(datas),
         next_page |-> IF i < Len(datas) THEN i + 1 ELSE 0]]

AllPages == {MkPages(d) : d \in SeqsUpTo(PageData, MaxPages) \ {<<>>}}

\* Responses of the catalog service to one GET: a transport failure, or a
\* status with (for 429) an optional integer Retry-After header.
Responses ==
    {[transport_ok |-> FALSE, status |-> 0, retry_after |-> <<>>]}
    \cup {[transport_ok |-> TRUE, status |-> s, retry_after |-> <<>>] :
            s \in {200, 404, 429, 500, 503}}
    \cup {[transport_ok |-> TRUE, status |-> 429, retry_after |-> <<h>>] :
            h \in {1, 7}}

\* The cells a sheet read may return for one row: no cell, or one text.
SheetCells == {<<>>, <<N_A>>, <<N_spA>>, <<N_Zsp>>, <<N_a>>, <<N_sp>>, <<N_empty>>}
AllSheets == SeqsUpTo(SheetCells, MaxRows)

\* Catalogs as fetch_scryfall_cards returns them: keys are stripped, non-empty
\* names and every rarity is truthy.
Catalogs ==
    { << >>,
      [n \in {N_A} |-> S_mythic],
      [n \in {N_A, N_Z} |-> IF n = N_A THEN S_COMMON ELSE S_special],
      [n \in {N_Z, N_a} |-> IF n = N_Z THEN S_uncommon ELSE S_Rare] }

ColChars == {65, 66, 89, 90, 97, 122, 32, 49}
AllColumns == SeqsUpTo(ColChars, MaxColLen)

URL_ABSENT == ""
URL_NO_ID == "https://example.com/sheet"
URL_WITH_ID == "https://docs.google.com/spreadsheets/d/abc-123_x/edit"
NoId == ""

\* re.search(r"/spreadsheets/d/([a-zA-Z0-9-_]+)", sheet_url) on the URLs above.
parse_sheet_id(sheet_url) ==
    IF sheet_url = URL_ABSENT THEN NoId
    ELSE IF sheet_url = URL_WITH_ID THEN "abc-123_x"
    ELSE NoId

(* ------------------------------------------------------------------ *)
(* State                                                               *)
(* ------------------------------------------------------------------ *)
VARIABLES
    pc,             \* position in main()
    args,           \* parsed command line
    pages,          \* the catalog service's result set (environment)
    sheet,          \* the values the sheet read returns (environment)
    sheet_id,       \* main: spreadsheet id
    url,            \* fetch_scryfall_cards: url
    retries,        \* fetch_scryfall_cards: retries
    cards,          \* fetch_scryfall_cards: cards / main: cards
    rows,           \* sync_sheet: rows
    target_column,  \* sync_sheet: target_column
    updates,        \* sync_sheet: updates
    missing_cards,  \* sync_sheet: missing_cards
    written,        \* body["data"] of the batchUpdate call, once issued
    preview,        \* the "Would update row ..." lines printed
    report,         \* what main prints on success
    error,          \* the failure that ended the run, or "none"
    exit_status,    \* "running", "0" or "1"
    calls,          \* history: external calls issued, per kind
    lastUrl,        \* history: url of the latest catalog request
    lastStatus,     \* history: status of the latest catalog response (0: none)
    lastWait,       \* history: time.sleep() argument while handling it (0: none)
    pageRequests,   \* history: requests issued so far for the current url
    spent,          \* history: 429 and 5xx responses so far for the current url
    served          \* history: urls served successfully, in order

envVars == <<args, pages, sheet>>
fetchVars == <<url, retries, cards>>
syncVars == <<rows, target_column, updates, missing_cards, written, preview>>
histVars == <<lastUrl, lastStatus, lastWait, pageRequests, spent, served>>
vars == <<pc, envVars, sheet_id, fetchVars, syncVars, report, error, exit_status,
          calls, histVars>>

NoCalls == [create |-> 0, request |-> 0, read |-> 0, write |-> 0]

\* Everything but pc, the inputs and cards, as it is before main() runs.
Fresh ==
    /\ sheet_id = NoId
    /\ url = SCRYFALL_SEARCH_ENDPOINT
    /\ retries = 0
    /\ rows = <<>>
    /\ target_column = <<>>
    /\ updates = <<>>
    /\ missing_cards = <<>>
    /\ written = <<>>
    /\ preview = <<>>
    /\ report = [printed |-> FALSE, updated |-> 0, missing |-> <<>>]
    /\ error = "none"
    /\ exit_status = "running"
    /\ calls = NoCalls
    /\ lastUrl = 0
    /\ lastStatus = 0
    /\ lastWait = 0
    /\ pageRequests = 0
    /\ spent = [rate |-> 0, server |-> 0]
    /\ served = <<>>

(* ------------------------------------------------------------------ *)
(* main(): failure handling                                            *)
(* ------------------------------------------------------------------ *)
\* "except ... : print(exc, file=sys.stderr); return 1"
Abort(kind) ==
    /\ error' = kind
    /\ exit_status' = "1"
    /\ pc' = "done"

\* main's handler around fetch_scryfall_cards.
FetchFailed(kind) == Abort(kind)

\* The mutant reports a failed sync step and goes on to the write.
SyncFailedGoesOn(kind) ==
    /\ error' = kind
    /\ exit_status' = exit_status
    /\ pc' = IF pc = "read" THEN "reconcile" ELSE "output"

\* main's handler around sync_sheet.
SyncFailed(kind) == Abort(kind)

(* ------------------------------------------------------------------ *)
(* fetch_scryfall_cards                                                *)
(* ------------------------------------------------------------------ *)
\* One iteration of "for card in payload.get('data', [])": the mapping holds
\* the rarity of the CardRecord stored under each name.
AddCard(dict, card) ==
    LET name == Strip(card.name)
    IN  IF name = <<>> \/ card.rarity = NoRarity THEN dict
        ELSE [n \in DOMAIN dict \cup {name} |->
                IF n = name THEN card.rarity ELSE dict[n]]

RECURSIVE AddCards(_, _)
AddCards(dict, data) ==
    IF data = <<>> THEN dict ELSE AddCards(AddCard(dict, Head(data)), Tail(data))

\* The mutant raises once the fifth retry would be due.
On429CeilingOffByOne(resp) ==
    /\ lastWait' = IF resp.retry_after = <<>> THEN 2 ELSE resp.retry_after[1]
    /\ retries' = retries + 1
    /\ IF retries' >= 5
       THEN FetchFailed("RateLimitExceeded")
       ELSE pc' = "fetch" /\ UNCHANGED <<error, exit_status>>
    /\ UNCHANGED <<url, cards, served>>

\* status_code == 429: sleep, count, raise above the ceiling, else retry.
On429(resp) ==
    /\ lastWait' = IF resp.retry_after = <<>> THEN 2 ELSE resp.retry_after[1]
    /\ retries' = retries + 1
    /\ IF retries' > 5
       THEN FetchFailed("RateLimitExceeded")
       ELSE pc' = "fetch" /\ UNCHANGED <<error, exit_status>>
    /\ UNCHANGED <<url, cards, served>>

\* The mutant sleeps before it counts the retry.
On5xxSleepsFirst(resp) ==
    /\ lastWait' = 2 ^ retries
    /\ retries' = retries + 1
    /\ IF retries' > 5
       THEN FetchFailed("UpstreamUnavailable")
       ELSE pc' = "fetch" /\ UNCHANGED <<error, exit_status>>
    /\ UNCHANGED <<url, cards, served>>

\* The mutant forgets to count a 5xx response against the retry budget.
On5xxNotCounted(resp) ==
    /\ retries' = retries
    /\ pc' = "fetch"
    /\ lastWait' = 2 ^ (retries + 1)
    /\ UNCHANGED <<error, exit_status, url, cards, served>>

\* 500 <= status_code < 600: count, raise above the ceiling, else sleep
\* 2 ** retries and retry.
On5xx(resp) ==
    /\ retries' = retries + 1
    /\ IF retries' > 5
       THEN FetchFailed("UpstreamUnavailable") /\ lastWait' = 0
       ELSE /\ pc' = "fetch"
            /\ lastWait' = 2 ^ retries'
            /\ UNCHANGED <<error, exit_status>>
    /\ UNCHANGED <<url, cards, served>>

\* not response.ok
OnOtherStatus(resp) ==
    /\ FetchFailed("CatalogRequestFailed")
    /\ lastWait' = 0
    /\ UNCHANGED <<url, retries, cards, served>>

\* requests.RequestException from session.get
OnTransportError(resp) ==
    /\ FetchFailed("CatalogUnreachable")
    /\ lastWait' = 0
    /\ UNCHANGED <<url, retries, cards, served>>

\* The mutant leaves the retry counter as the page found it.
OnSuccessNoReset(resp) ==
    LET payload == pages[url]
    IN  /\ retries' = retries
        /\ cards' = AddCards(cards, payload.data)
        /\ served' = Append(served, url)
        /\ lastWait' = 0
        /\ url' = IF payload.has_more THEN payload.next_page ELSE url
        /\ pc' = IF payload.has_more /\ payload.next_page # 0 THEN "fetch" ELSE "read"
        /\ UNCHANGED <<error, exit_status>>

\* The mutant returns after the first page.
OnSuccessFirstPageOnly(resp) ==
    LET payload == pages[url]
    IN  /\ retries' = 0
        /\ cards' = AddCards(cards, payload.data)
        /\ served' = Append(served, url)
        /\ lastWait' = 0
        /\ url' = url
        /\ pc' = "read"
        /\ UNCHANGED <<error, exit_status>>

\* A successful page: reset retries, merge its records, then follow
\* next_page while has_more is set ("while url" ends the loop on None).
OnSuccess(resp) ==
    LET payload == pages[url]
    IN  /\ retries' = 0
        /\ cards' = AddCards(cards, payload.data)
        /\ served' = Append(served, url)
        /\ lastWait' = 0
        /\ url' = IF payload.has_more THEN payload.next_page ELSE url
        /\ pc' = IF payload.has_more /\ payload.next_page # 0 THEN "fetch" ELSE "read"
        /\ UNCHANGED <<error, exit_status>>

\* One iteration of "while url": one GET and the handling of its response.
FetchRequest ==
    /\ pc = "fetch"
    /\ \E resp \in Responses :
        /\ calls' = [calls EXCEPT !.request = @ + 1]
        /\ lastUrl' = url
        /\ lastStatus' = resp.status
        /\ IF ~resp.transport_ok THEN OnTransportError(resp)
           ELSE IF resp.status = 429 THEN On429(resp)
           ELSE IF resp.status >= 500 /\ resp.status < 600 THEN On5xx(resp)
           ELSE IF resp.status >= 400 THEN OnOtherStatus(resp)
           ELSE OnSuccess(resp)
        /\ pageRequests' = IF url' # url THEN 0 ELSE pageRequests + 1
        /\ spent' = IF url' # url THEN [rate |-> 0, server |-> 0]
                     ELSE IF ~resp.transport_ok THEN spent
                     ELSE IF resp.status = 429 THEN [spent EXCEPT !.rate = @ + 1]
                     ELSE IF resp.status >= 500 /\ resp.status < 600
                     THEN [spent EXCEPT !.server = @ + 1]
                     ELSE spent
    /\ UNCHANGED <<envVars, sheet_id, syncVars, report>>

(* ------------------------------------------------------------------ *)
(* sync_sheet                                                          *)
(* ------------------------------------------------------------------ *)
\* "for index, row in enumerate(values, start=start_row)": rows without a
\* cell are dropped, the others keep their sheet row number.
RECURSIVE EnumerateRows(_, _)
EnumerateRows(values, index) ==
    IF values = <<>> THEN <<>>
    ELSE (IF Head(values) = <<>> THEN <<>>
          ELSE <<[index |-> index, text |-> Head(values)[1]]>>)
         \o EnumerateRows(Tail(values), index + 1)

read_rows(values, start_row) == EnumerateRows(values, start_row)

\* The mutant lacks the "continue" after an unmapped rarity.
ReconcileRowFallsThrough(acc, row) ==
    LET normalized_name == Strip(row.text)
    IN  IF normalized_name = <<>> THEN acc
        ELSE IF normalized_name \notin DOMAIN cards
        THEN [acc EXCEPT !.missing = Append(@, row.text)]
        ELSE IF rarity_code(cards[normalized_name]) = NoCode
        THEN [updates |-> Append(acc.updates, [row |-> row.index, code |-> NoCode]),
              missing |-> Append(acc.missing, row.text)]
        ELSE [acc EXCEPT !.updates =
                Append(@, [row |-> row.index,
                           code |-> rarity_code(cards[normalized_name])])]

\* One iteration of "for row_index, card_name in rows".
ReconcileRow(acc, row) ==
    LET normalized_name == Strip(row.text)
    IN  IF normalized_name = <<>> THEN acc
        ELSE IF normalized_name \notin DOMAIN cards
        THEN [acc EXCEPT !.missing = Append(@, row.text)]
        ELSE IF rarity_code(cards[normalized_name]) = NoCode
        THEN [acc EXCEPT !.missing = Append(@, row.text)]
        ELSE [acc EXCEPT !.updates =
                Append(@, [row |-> row.index,
                           code |-> rarity_code(cards[normalized_name])])]

RECURSIVE ReconcileRows(_, _)
ReconcileRows(acc, rs) ==
    IF rs = <<>> THEN acc ELSE ReconcileRows(ReconcileRow(acc, Head(rs)), Tail(rs))

\* target_column = index_to_column(column_to_index(name_column) + 1)
target_of(name_column) == index_to_column(column_to_index(name_column) + 1)

\* read_sheet_rows: the start_row check, then the values().get() call.
SheetRead ==
    /\ pc = "read"
    /\ IF args.start_row < 1
       THEN /\ SyncFailed("start_row")
            /\ UNCHANGED <<calls, rows>>
       ELSE /\ calls' = [calls EXCEPT !.read = @ + 1]
            /\ \E http_ok \in BOOLEAN :
                IF http_ok
                THEN /\ rows' = read_rows(sheet, args.start_row)
                     /\ pc' = "reconcile"
                     /\ UNCHANGED <<error, exit_status>>
                ELSE /\ SyncFailed("read")
                     /\ UNCHANGED rows
    /\ UNCHANGED <<envVars, sheet_id, fetchVars, target_column, updates,
                   missing_cards, written, preview, report, histVars>>

\* The target column and the loop over the rows.
Reconcile ==
    /\ pc = "reconcile"
    /\ IF column_to_index_raises(args.column)
       THEN /\ SyncFailed("InvalidColumn")
            /\ UNCHANGED <<target_column, updates, missing_cards>>
       ELSE LET acc == ReconcileRows([updates |-> <<>>, missing |-> <<>>], rows)
            IN  /\ target_column' = target_of(args.column)
                /\ updates' = acc.updates
                /\ missing_cards' = acc.missing
                /\ pc' = "output"
                /\ UNCHANGED <<error, exit_status>>
    /\ UNCHANGED <<envVars, sheet_id, fetchVars, rows, written, preview, report,
                   calls, histVars>>

\* body["data"] of write_rarities: one range per update.
write_data(column, upd) ==
    [i \in 1..Len(upd) |->
        [column |-> column, row |-> upd[i].row, value |-> upd[i].code]]

\* "for row_index, code in updates: print(...)"
preview_lines(upd) == upd

\* "if dry_run: ... else: write_rarities(...)"
wants_write(dry_run) == ~dry_run

\* The dry-run preview, or write_rarities with its single batchUpdate call
\* (none when there is nothing to update).
WriteOrPreview ==
    /\ pc = "output"
    /\ IF ~wants_write(args.dry_run)
       THEN /\ preview' = preview_lines(updates)
            /\ pc' = "report"
            /\ UNCHANGED <<calls, written, error, exit_status>>
       ELSE IF updates = <<>>
       THEN /\ pc' = "report"
            /\ UNCHANGED <<calls, written, preview, error, exit_status>>
       ELSE /\ calls' = [calls EXCEPT !.write = @ + 1]
            /\ written' = write_data(target_column, updates)
            /\ UNCHANGED preview
            /\ \E http_ok \in BOOLEAN :
                IF http_ok
                THEN pc' = "report" /\ UNCHANGED <<error, exit_status>>
                ELSE SyncFailed("write")
    /\ UNCHANGED <<envVars, sheet_id, fetchVars, rows, target_column, updates,
                   missing_cards, report, histVars>>

(* ------------------------------------------------------------------ *)
(* main                                                                *)
(* ------------------------------------------------------------------ *)
\* get_credentials, then build_sheets_service.
GetCredentials ==
    /\ pc = "start"
    /\ \E creds_ok \in BOOLEAN :
        IF creds_ok
        THEN pc' = "resolve" /\ UNCHANGED <<error, exit_status>>
        ELSE Abort("credential")
    /\ UNCHANGED <<envVars, sheet_id, fetchVars, syncVars, report, calls, histVars>>

\* "if not sheet_id"
must_create(id) == id = NoId

\* The spreadsheet id from --sheet-url, or a new spreadsheet.
ResolveSheet ==
    /\ pc = "resolve"
    /\ LET parsed == IF args.sheet_url # URL_ABSENT
                     THEN parse_sheet_id(args.sheet_url) ELSE NoId
       IN  IF must_create(parsed)
           THEN /\ calls' = [calls EXCEPT !.create = @ + 1]
                /\ \E http_ok \in BOOLEAN :
                    IF http_ok
                    THEN /\ sheet_id' = "created"
                         /\ pc' = "fetch"
                         /\ UNCHANGED <<error, exit_status>>
                    ELSE Abort("create") /\ UNCHANGED sheet_id
           ELSE /\ sheet_id' = parsed
                /\ pc' = "fetch"
                /\ UNCHANGED <<calls, error, exit_status>>
    /\ UNCHANGED <<envVars, fetchVars, syncVars, report, histVars>>

\* The report of a successful run and "return 0".
Report ==
    /\ pc = "report"
    /\ report' = [printed |-> TRUE, updated |-> Len(updates), missing |-> missing_cards]
    /\ exit_status' = "0"
    /\ pc' = "done"
    /\ UNCHANGED <<envVars, sheet_id, fetchVars, syncVars, error, calls, histVars>>

(* ------------------------------------------------------------------ *)
(* Specifications                                                      *)
(* ------------------------------------------------------------------ *)
\* Command lines of the whole-run specification.
MainColumns == {<<65>>, <<122>>, <<>>, <<65, 49>>, <<32, 66, 32>>}
MainPages == {MkPages(<<d>>) : d \in PageData} \cup
             {MkPages(<<d, e>>) : d \in {<<Card(N_A, S_mythic)>>},
                                  e \in {<<Card(N_spA, S_COMMON), Card(N_Z, S_Rare)>>}}
MainSheets == {<<>>, << <<N_spA>>, <<>>, <<N_a>>, <<N_Zsp>> >>}

\* A whole run of main().
Init ==
    /\ pc = "start"
    /\ args \in [sheet_url : {URL_ABSENT, URL_NO_ID, URL_WITH_ID},
                 column : MainColumns,
                 start_row : {0, 1, 2},
                 dry_run : BOOLEAN]
    /\ pages \in MainPages
    /\ sheet \in MainSheets
    /\ cards = << >>
    /\ Fresh

Next ==
    \/ GetCredentials
    \/ ResolveSheet
    \/ FetchRequest
    \/ SheetRead
    \/ Reconcile
    \/ WriteOrPreview
    \/ Report

Spec == Init /\ [][Next]_vars

\* fetch_scryfall_cards alone, over every result set of up to MaxPages pages.
InitFetch ==
    /\ pc = "fetch"
    /\ args = [sheet_url |-> URL_WITH_ID, column |-> <<65>>, start_row |-> 2,
               dry_run |-> FALSE]
    /\ pages \in AllPages
    /\ sheet = <<>>
    /\ cards = << >>
    /\ Fresh

NextFetch == FetchRequest

SpecFetch == InitFetch /\ [][NextFetch]_vars

\* sync_sheet alone, over every sheet of up to MaxRows rows and every catalog.
InitRecon ==
    /\ pc = "read"
    /\ args \in [sheet_url : {URL_WITH_ID}, column : {<<65>>}, start_row : {1, 2},
                 dry_run : BOOLEAN]
    /\ pages = MkPages(<< <<>> >>)
    /\ sheet \in AllSheets
    /\ cards \in Catalogs
    /\ Fresh

NextSync ==
    \/ SheetRead
    \/ Reconcile
    \/ WriteOrPreview
    \/ Report

SpecRecon == InitRecon /\ [][NextSync]_vars

\* sync_sheet alone, over every column reference of up to MaxColLen characters.
InitCol ==
    /\ pc = "read"
    /\ args \in [sheet_url : {URL_WITH_ID}, column : AllColumns, start_row : {2},
                 dry_run : BOOLEAN]
    /\ pages = MkPages(<< <<>> >>)
    /\ sheet = << <<N_A>>, <<N_Zsp>> >>
    /\ cards = [n \in {N_A, N_Z} |-> IF n = N_A THEN S_mythic ELSE S_Rare]
    /\ Fresh

SpecCol == InitCol /\ [][NextSync]_vars

(* ------------------------------------------------------------------ *)
(* Properties                                                          *)
(* ------------------------------------------------------------------ *)
Is5xx(status) == status >= 500 /\ status < 600
CeilingErrors == {"RateLimitExceeded", "UpstreamUnavailable"}
FetchErrors == CeilingErrors \cup {"CatalogRequestFailed", "CatalogUnreachable"}
NoNetworkCall == calls.create = 0 /\ calls.request = 0 /\ calls.read = 0

\* C1: when the start row is non-positive or the source column is empty or
\* invalid, the run makes no network call at all: no spreadsheet is created,
\* no catalog request is sent and the sheet is not read.
C1_FailFast ==
    (args.start_row < 1 \/ column_to_index_raises(args.column)) => NoNetworkCall

\* C2: a dry run never mutates external state (no spreadsheet is created and
\* no batched write is issued), and a dry run that completes has printed one
\* preview line per computed update, as many as the count it reports.
C2_DryRunNoMutation ==
    args.dry_run =>
        /\ calls.create = 0
        /\ calls.write = 0
        /\ written = <<>>
        /\ (exit_status = "0" =>
                /\ Len(preview) = Len(updates)
                /\ report.updated = Len(updates))

\* What holds of every state (C3).
C3_State ==
    /\ lastStatus = 429 =>
          /\ lastWait >= 1
          /\ IF pageRequests <= 5
             THEN pc = "fetch" /\ error = "none" /\ url = lastUrl
             ELSE pageRequests = 6 /\ error = "RateLimitExceeded" /\ pc = "done"
    /\ error = "RateLimitExceeded" => lastStatus = 429 /\ pc = "done"

\* What holds of every step (C3).
C3_Step ==
    /\ (lastStatus = 429 /\ pc = "fetch") => lastUrl' = lastUrl
    /\ (lastStatus = 429 /\ pc = "fetch" /\ lastStatus' = 200) =>
          /\ error' = "none"
          /\ served' = Append(served, lastUrl)
          /\ pc' \in {"fetch", "read"}
    /\ error = "RateLimitExceeded" => calls' = calls

C4_State ==
    /\ Is5xx(lastStatus) =>
          IF pageRequests <= 5
          THEN /\ pc = "fetch"
               /\ error = "none"
               /\ url = lastUrl
               /\ lastWait = 2 ^ pageRequests
          ELSE /\ pageRequests = 6
               /\ error = "UpstreamUnavailable"
               /\ pc = "done"
               /\ lastWait = 0
    /\ error = "UpstreamUnavailable" => Is5xx(lastStatus) /\ pc = "done"

\* What holds of every step (C4).
C4_Step ==
    /\ (Is5xx(lastStatus) /\ pc = "fetch") => lastUrl' = lastUrl
    /\ error = "UpstreamUnavailable" => calls' = calls

\* C4: the n-th retryable response for a url, when it is a 5xx and n <= 5,
\* is followed by a wait of 2^n and a retry of the same url; when n = 6 the
\* fetch ends with UpstreamUnavailable, without a wait and without a
\* further request.
C4_ServerErrorBackoff == []C4_State /\ [][C4_Step]_vars

\* The fifth retry after 5xx responses only is about to be sent.
C4_Witness ==
    /\ pc = "fetch"
    /\ Is5xx(lastStatus)
    /\ spent = [rate |-> 0, server |-> 5]
    /\ lastWait = 32

\* What holds of every state (C5).
C5_State ==
    /\ pc = "fetch" => retries = pageRequests
    /\ pageRequests = 0 => retries = 0
    /\ error \in CeilingErrors => pageRequests = 6

\* What holds of every step (C5).
C5_Step == (pc = "fetch" /\ lastStatus' = 200) => retries' = 0

\* C5: a successful page sets the retry counter to zero, so while the fetch
\* runs the counter equals the number of requests made for the current url
\* alone, and a fetch that fails on the retry ceiling has made six requests
\* for the url it failed on, whatever earlier pages cost.
C5_RetryReset == []C5_State /\ [][C5_Step]_vars

\* The first page was served on its sixth request, and the second page then
\* failed on its own sixth request.
C5_Witness ==
    /\ error \in CeilingErrors
    /\ served = <<1>>
    /\ lastUrl = 2
    /\ calls.request = 12

\* The outcome of a row, read off the row and the catalog.
RowSkipped(row) == Strip(row.text) = <<>>

RowUpdated(row) ==
    /\ ~RowSkipped(row)
    /\ Strip(row.text) \in DOMAIN cards
    /\ Lower(cards[Strip(row.text)]) \in RARITY_MAP_keys

RowMissing(row) == ~RowSkipped(row) /\ ~RowUpdated(row)

\* C6: every row read gets exactly one outcome.  A row whose stripped text
\* is empty yields nothing; a row whose stripped text is no catalog name, or
\* names a card whose rarity has no code, yields one missing entry (its raw
\* text); every other row yields one (row, code) update.  Both lists keep the
\* row order, so updates + missing + skipped = rows read.
C6_OneOutcomePerRow ==
    pc \in {"output", "report"} \/ (pc = "done" /\ error \in {"none", "write"}) =>
        LET upd == SelectSeq(rows, RowUpdated)
            mis == SelectSeq(rows, RowMissing)
            skipped == {i \in 1..Len(rows) : RowSkipped(rows[i])}
        IN  /\ Len(updates) = Len(upd)
            /\ \A i \in 1..Len(upd) :
                  /\ updates[i].row = upd[i].index
                  /\ updates[i].code = RARITY_MAP(Lower(cards[Strip(upd[i].text)]))
            /\ missing_cards = [i \in 1..Len(mis) |-> mis[i].text]
            /\ Len(updates) + Len(missing_cards) + Cardinality(skipped) = Len(rows)
            /\ \A i, j \in 1..Len(updates) : updates[i].row = updates[j].row => i = j

\* A sheet with a blank row, a row naming a card of unmapped rarity and a row
\* (padded with whitespace) naming a card with a code.
C6_Witness ==
    /\ pc = "done"
    /\ exit_status = "0"
    /\ Len(rows) = 3
    /\ \E i \in 1..3 : RowSkipped(rows[i])
    /\ \E i \in 1..3 : /\ Strip(rows[i].text) \in DOMAIN cards
                       /\ RowMissing(rows[i])
                       /\ rows[i].text # Strip(rows[i].text)
    /\ Len(updates) = 1
    /\ Len(missing_cards) = 1

\* What holds of every state (C7).
C7_State ==
    /\ error # "none" <=> exit_status = "1"
    /\ error # "none" => pc = "done"
    /\ calls.create <= 1 /\ calls.read <= 1 /\ calls.write <= 1
    /\ error \in FetchErrors => calls.read = 0 /\ calls.write = 0
    /\ error \in {"start_row", "read", "InvalidColumn"} => calls.write = 0
    /\ error \in {"credential", "create"} => calls.request = 0 /\ calls.read = 0
    /\ calls.write = 1 =>
          /\ served # <<>>
          /\ calls.read = 1
          /\ updates # <<>>
          /\ written # <<>>
          /\ error \in {"none", "write"}
          /\ ~column_to_index_raises(args.column)

\* What holds of every step (C7).
C7_Step == error # "none" => calls' = calls /\ error' = error

\* C7: a failed step ends the run with status 1 and no further external
\* call; no step is tried twice; after a failed fetch, start-row check, sheet
\* read or column computation no batched write is issued; and the batched
\* write is issued at most once, only after the catalog was fetched, the
\* sheet read and the updates computed.
C7_FailureAborts == []C7_State /\ [][C7_Step]_vars

\* The column computation failed after the fetch and the sheet read.
C7_Witness ==
    /\ error = "InvalidColumn"
    /\ exit_status = "1"
    /\ calls.request >= 1
    /\ calls.read = 1
    /\ calls.write = 0

\* The records of the result set, by page and position.
RecordsServed ==
    UNION {{[page |-> p, pos |-> k] : k \in 1..Len(pages[p].data)} : p \in 1..Len(pages)}

RecordOf(r) == pages[r.page].data[r.pos]
RecordKept(r) == Strip(RecordOf(r).name) # <<>> /\ RecordOf(r).rarity # NoRarity
RecordBefore(r, q) == r.page < q.page \/ (r.page = q.page /\ r.pos < q.pos)

\* C8: a fetch that returns has been served every page of the result set,
\* in order, starting from the search endpoint, and its mapping holds exactly
\* the stripped names of the records with a non-empty name and a rarity, each
\* with the rarity of the last such record of that name.
C8_EveryPage ==
    (pc = "read" /\ error = "none") =>
        /\ served = [i \in 1..Len(pages) |-> i]
        /\ served[1] = SCRYFALL_SEARCH_ENDPOINT
        /\ ~pages[served[Len(served)]].has_more
        /\ DOMAIN cards = {Strip(RecordOf(r).name) : r \in {q \in RecordsServed : RecordKept(q)}}
        /\ \A r \in RecordsServed :
              RecordKept(r) =>
                 \/ cards[Strip(RecordOf(r).name)] = RecordOf(r).rarity
                 \/ \E q \in RecordsServed :
                       /\ RecordKept(q)
                       /\ RecordBefore(r, q)
                       /\ Strip(RecordOf(q).name) = Strip(RecordOf(r).name)

\* Two pages, served after retries, the second overwriting a name of the first.
C8_Witness ==
    /\ pc = "read"
    /\ served = <<1, 2>>
    /\ calls.request > 2
    /\ N_A \in DOMAIN cards
    /\ N_Z \in DOMAIN cards
    /\ cards[N_A] = S_COMMON
    /\ pages[1].data = <<Card(N_A, S_mythic)>>

\* C9: every range of the batched write is in the column right of the name
\* column: its index is the name column's index plus one, for references of
\* one or several letters in either case, with the carries Z -> AA and
\* AZ -> BA.
C9_TargetColumnRight ==
    calls.write = 1 =>
        /\ written # <<>>
        /\ \A i \in 1..Len(written) :
              /\ ~column_to_index_raises(written[i].column)
              /\ column_to_index(written[i].column) = column_to_index(args.column) + 1
              /\ written[i].column = Upper(written[i].column)
              /\ Upper(Strip(args.column)) = <<65>> => written[i].column = <<66>>
              /\ Upper(Strip(args.column)) = <<90>> => written[i].column = <<65, 65>>
              /\ Upper(Strip(args.column)) = <<65, 90>> => written[i].column = <<66, 65>>

\* The write for the lower-case name column "az" goes to column BA.
C9_Witness ==
    /\ calls.write = 1
    /\ args.column = <<97, 122>>
    /\ Len(written) = 2
    /\ written[1].column = <<66, 65>>

\* C10: 429 and 5xx responses draw on one budget per url: a url is requested
\* at most six times, a fetch fails on the ceiling exactly at the sixth
\* retryable response for a url, in any mix of the two kinds, and the error
\* is RateLimitExceeded when that sixth response is a 429 and
\* UpstreamUnavailable when it is a 5xx.
C10_SharedBudget ==
    /\ pageRequests <= 6
    /\ spent.rate + spent.server <= 6
    /\ spent.rate + spent.server = 6 <=> error \in CeilingErrors
    /\ error \in CeilingErrors =>
          /\ pageRequests = 6
          /\ error = (IF lastStatus = 429 THEN "RateLimitExceeded"
                      ELSE "UpstreamUnavailable")
          /\ lastStatus = 429 \/ Is5xx(lastStatus)

\* Five 5xx responses used the budget up and one 429 then failed the fetch.
C10_Witness ==
    /\ error = "RateLimitExceeded"
    /\ spent = [rate |-> 1, server |-> 5]

====
